---------------------------- MODULE Spec2Model ----------------------------
(***************************************************************************)
(* Scholar-Issue-Hunter: the special-issue scrapers (scripts/scraper.py,   *)
(* scraper.py), the detail parsers and the HTML cleaner                     *)
(* (scripts/parsers.py), and the parser router.                            *)
(*                                                                         *)
(* Strings are sequences of chunks.  A chunk is a TLA+ string standing for *)
(* an indivisible piece of text (a phrase, a word, one character); " " is  *)
(* the whitespace chunk.  Substring tests are made chunk by chunk, lengths *)
(* are the sums of the chunks' lengths.                                    *)
(***************************************************************************)
EXTENDS Integers, Sequences, FiniteSets

VARIABLES
    \* --- clean_html_attributes under repeated application
    html_content,      \* the argument of the last call
    cleaned,           \* the value the last call returned
    first_cleaned,     \* the value the first call returned
    clean_calls,       \* number of calls made so far
    \* --- one detail-page extraction (extract_details / parse_rse / parse_cities)
    wparser,           \* which parser function runs
    soup,              \* the ParsedDocument handed in (mutated in place by the walk)
    wpc,               \* position in the parser function
    widx,              \* index of the next block of the walk
    current_mode,      \* current_mode / current_state
    editors_parts,
    description_parts,
    deadline,
    details,           \* the returned triple
    \* --- get_parser
    journal_name,
    parser_func,
    \* --- a scrape run (main / scrape_all)
    prog,              \* "scripts" (scripts/scraper.py) or "legacy" (scraper.py)
    api_key,           \* SCRAPER_API_KEY is set
    journals,          \* the configured journals
    jidx,              \* index of the journal being processed
    rpc,               \* position in the run
    attempt,           \* get_soup retry counter for the listing fetch
    links,             \* candidate links / sections of the current listing
    lidx,              \* index of the next candidate
    seen_urls,
    issues,            \* records of the current journal
    results            \* results['journals']

cleanVars  == <<html_content, cleaned, first_cleaned, clean_calls>>
walkVars   == <<wparser, soup, wpc, widx, current_mode, editors_parts,
                description_parts, deadline, details>>
routerVars == <<journal_name, parser_func>>
runVars    == <<prog, api_key, journals, jidx, rpc, attempt, links, lidx,
                seen_urls, issues, results>>
vars       == <<cleanVars, walkVars, routerVars, runVars>>

-----------------------------------------------------------------------------
(* Generic helpers *)

\* All sequences over S of length 0..n.
SeqsUpTo(S, n) == UNION {[1..m -> S] : m \in 0..n}

RECURSIVE Flatten(_)
\* "".join(parts)
Flatten(parts) ==
    IF parts = <<>> THEN <<>> ELSE Head(parts) \o Flatten(Tail(parts))

RECURSIVE JoinWith(_, _)
\* sep.join(parts)
JoinWith(sep, parts) ==
    IF parts = <<>> THEN <<>>
    ELSE IF Len(parts) = 1 THEN parts[1]
    ELSE parts[1] \o sep \o JoinWith(sep, Tail(parts))

IsSpace(c) == c = " "

RECURSIVE LStrip(_)
LStrip(s) == IF s # <<>> /\ IsSpace(Head(s)) THEN LStrip(Tail(s)) ELSE s

RECURSIVE RStrip(_)
RStrip(s) ==
    IF s # <<>> /\ IsSpace(s[Len(s)]) THEN RStrip(SubSeq(s, 1, Len(s) - 1)) ELSE s

\* str.strip()
Strip(s) == RStrip(LStrip(s))

AllSpace(s) == \A i \in 1..Len(s) : IsSpace(s[i])

-----------------------------------------------------------------------------
(* HTML strings and BeautifulSoup trees.                                   *)
(* An HTML string is a sequence of tokens: a start tag, an end tag, or a   *)
(* run of text.  A tree is a balanced token sequence (every start tag has  *)
(* its end tag), which is what BeautifulSoup(html, 'html.parser') builds.  *)

OpenTag(n, a) == [k |-> "open",  name |-> n,  attrs |-> a,     s |-> <<>>]
CloseTag(n)   == [k |-> "close", name |-> n,  attrs |-> FALSE, s |-> <<>>]
TextNode(t)   == [k |-> "text",  name |-> "", attrs |-> FALSE, s |-> t]

\* Elements html.parser closes as soon as they open.
VoidTags == {"br"}

\* bs4's endData: the text collected since the last tag becomes one string;
\* a string of whitespace alone is replaced by a single space.
EndData(out, data) ==
    IF data = <<>> THEN out
    ELSE Append(out, TextNode(IF AllSpace(data) THEN <<" ">> ELSE data))

RECURSIVE CloseAll(_)
\* The end tags of the elements still open, innermost first.
CloseAll(stack) ==
    IF stack = <<>> THEN <<>>
    ELSE <<CloseTag(stack[Len(stack)])>> \o CloseAll(SubSeq(stack, 1, Len(stack) - 1))

\* Index in the stack of the innermost open element called n (0: none).
InnermostOpen(stack, n) ==
    LET hits == {i \in 1..Len(stack) : stack[i] = n}
    IN  IF hits = {} THEN 0 ELSE CHOOSE i \in hits : \A j \in hits : j <= i

RECURSIVE ParseFrom(_, _, _, _, _)
ParseFrom(toks, i, stack, data, out) ==
    IF i > Len(toks) THEN EndData(out, data) \o CloseAll(stack)
    ELSE
      LET t == toks[i] IN
      IF t.k = "text" THEN ParseFrom(toks, i + 1, stack, data \o t.s, out)
      ELSE IF t.k = "open" THEN
        IF t.name \in VoidTags
        THEN ParseFrom(toks, i + 1, stack, <<>>,
                       EndData(out, data) \o <<t, CloseTag(t.name)>>)
        ELSE ParseFrom(toks, i + 1, Append(stack, t.name), <<>>,
                       Append(EndData(out, data), t))
      ELSE \* an end tag: _popToTag pops up to the innermost open element of
           \* that name, and does nothing when there is none
        LET at == InnermostOpen(stack, t.name) IN
        IF at = 0 THEN ParseFrom(toks, i + 1, stack, <<>>, EndData(out, data))
        ELSE ParseFrom(toks, i + 1, SubSeq(stack, 1, at - 1), <<>>,
                       EndData(out, data) \o CloseAll(SubSeq(stack, at, Len(stack))))

\* BeautifulSoup(html_content, 'html.parser')
Parse(toks) == ParseFrom(toks, 1, <<>>, <<>>, <<>>)

RECURSIVE MatchFrom(_, _, _)
MatchFrom(T, j, depth) ==
    IF j > Len(T) THEN Len(T)
    ELSE IF T[j].k = "open" THEN MatchFrom(T, j + 1, depth + 1)
    ELSE IF T[j].k = "close"
         THEN IF depth = 0 THEN j ELSE MatchFrom(T, j + 1, depth - 1)
    ELSE MatchFrom(T, j + 1, depth)

\* The end tag of the element that starts at T[i].
MatchClose(T, i) == MatchFrom(T, i + 1, 0)

\* tag.unwrap() for every tag called one of names: the tag goes, its
\* children stay in its place.
UnwrapAll(T, names) == SelectSeq(T, LAMBDA n : ~(n.k # "text" /\ n.name \in names))

\* len(tag.get_text(strip=True)) == 0 for the element that starts at T[i].
TextIsEmpty(T, i) ==
    \A j \in (i + 1)..(MatchClose(T, i) - 1) : T[j].k = "text" => AllSpace(T[j].s)

\* The test of step 4 (parsers.py line 34).
IsEmptyTag(T, i) == TextIsEmpty(T, i)

\* tag.decompose() for every element found empty: it goes with all it holds.
RemoveEmpty(T) ==
    LET gone(k) == \E i \in 1..k :
                       T[i].k = "open" /\ IsEmptyTag(T, i) /\ k <= MatchClose(T, i)
        keep == {k \in 1..Len(T) : ~gone(k)}
        F[k \in 0..Len(T)] ==
            IF k = 0 THEN <<>>
            ELSE IF k \in keep THEN Append(F[k - 1], T[k]) ELSE F[k - 1]
    IN  F[Len(T)]

UnwrappedFirst == {"span", "div", "font", "strong", "b", "em", "i"}
valid_tags     == {"p", "ul", "ol", "li", "br"}

StripAttrs(T) ==
    [k \in 1..Len(T) |->
        IF T[k].k = "open" /\ T[k].name \in valid_tags
        THEN [T[k] EXCEPT !.attrs = FALSE] ELSE T[k]]

OtherTags(T) == {T[k].name : k \in {j \in 1..Len(T) : T[j].k # "text"}} \ valid_tags

RECURSIVE Serialize(_)
\* str(soup): a void element is written as one tag, neighbouring strings
\* run together.
Serialize(T) ==
    IF T = <<>> THEN <<>>
    ELSE
      LET n == Head(T)
          rest == Serialize(Tail(T)) IN
      IF n.k = "close" /\ n.name \in VoidTags THEN rest
      ELSE IF n.k = "text" /\ rest # <<>> /\ Head(rest).k = "text"
           THEN <<TextNode(n.s \o Head(rest).s)>> \o Tail(rest)
      ELSE <<n>> \o rest

\* str.strip() of an HTML string.
StripHtml(h) ==
    LET l == IF h # <<>> /\ h[1].k = "text"
             THEN IF LStrip(h[1].s) = <<>> THEN Tail(h)
                  ELSE <<TextNode(LStrip(h[1].s))>> \o Tail(h)
             ELSE h
        n == Len(l)
    IN  IF l # <<>> /\ l[n].k = "text"
        THEN IF RStrip(l[n].s) = <<>> THEN SubSeq(l, 1, n - 1)
             ELSE SubSeq(l, 1, n - 1) \o <<TextNode(RStrip(l[n].s))>>
        ELSE l

clean_html_attributes(h) ==
    IF h = <<>> THEN <<>>
    ELSE LET t0 == Parse(h)
             t1 == UnwrapAll(t0, UnwrappedFirst)
             t2 == StripAttrs(t1)
             t3 == UnwrapAll(t2, OtherTags(t2))
             t4 == RemoveEmpty(t3)
         IN  StripHtml(Serialize(t4))

-----------------------------------------------------------------------------
(* Text of a block: chunks, lower-casing, substring tests, lengths.        *)

\* str.lower() of one chunk.  A chunk that holds no needle of any parser in
\* either case is left as it is: only substring tests read the result.
LowerChunk(c) ==
    CASE c = "Guest editors"             -> "guest editors"
      [] c = "GUEST EDITORS"             -> "guest editors"
      [] c = "Special issue information" -> "special issue information"
      [] c = "Aims and scope"            -> "aims and scope"
      [] c = "Manuscript submission"     -> "manuscript submission"
      [] c = "Keywords:"                 -> "keywords:"
      [] c = "Science Direct"            -> "science direct"
      [] c = "Submission deadline"       -> "submission deadline"
      [] c = "University of X"           -> "university of x"
      [] c = "Email:"                    -> "email:"
      [] c = "Jane Doe"                  -> "jane doe"
      [] c = "Dr."                       -> "dr."
      [] c = "Prof."                     -> "prof."
      [] c = "Submit your paper"         -> "submit your paper"
      [] c = "This issue focuses on X."  -> "this issue focuses on x."
      [] c = "14 March 2026"             -> "14 march 2026"
      [] c = "About"                     -> "about"
      [] OTHER                           -> c

\* text.lower()
LowerText(text) == [i \in 1..Len(text) |-> LowerChunk(text[i])]

\* The needles of the parsers that occur inside a (lower-case) chunk.
NeedlesIn(c) ==
    CASE c = "special issue information" ->
             {"special issue information", "special issue info"}
      [] c = "university of x"   -> {"university", " of "}
      [] c = "email:"            -> {"email"}
      [] c = "submit your paper" -> {"submit"}
      [] c = "jane@x.org"        -> {"@"}
      [] OTHER                   -> {c}

\* needle in text (text already lower-cased where the code lower-cases it)
Contains(text, needle) == \E i \in 1..Len(text) : needle \in NeedlesIn(text[i])

RECURSIVE TextLen(_)
\* len(text)
TextLen(text) == IF text = <<>> THEN 0 ELSE Len(Head(text)) + TextLen(Tail(text))

\* Chunks that match \d{1,2}\s+[A-Za-z]+\s+\d{4}
DateChunks == {"14 March 2026"}

\* re.search(r'\d{1,2}\s+[A-Za-z]+\s+\d{4}', text)
HasDate(text) == \E i \in 1..Len(text) : text[i] \in DateChunks

\* parsers.is_metadata_line
is_metadata_line(text) ==
    \/ Contains(LowerText(text), "submission deadline") /\ TextLen(text) < 100
    \/ TextLen(text) < 30 /\ HasDate(text)

stop_indicators ==
    {"department", "university", "school", "institute", "center", "centre",
     "college", "faculty", "lead", "principal", "chair", "lecturer", "reader",
     "email", " at ", " of ", "head", "affiliation", "areas", "expertise",
     "interests"}

Honorifics == {"Dr.", "Dr", "Prof.", "Prof", "Professor", "Associate", "Assistant"}
EmailChunks == {"jane@x.org"}
TrimChunks == {" ", ",", ".", "-", ":"}

RECURSIVE TrimLeft(_)
TrimLeft(s) == IF s # <<>> /\ Head(s) \in TrimChunks THEN TrimLeft(Tail(s)) ELSE s

RECURSIVE TrimRight(_)
TrimRight(s) ==
    IF s # <<>> /\ s[Len(s)] \in TrimChunks
    THEN TrimRight(SubSeq(s, 1, Len(s) - 1)) ELSE s

\* parsers.extract_pure_name
extract_pure_name(text0) ==
    LET text == Strip(text0)
        low == LowerText(text)
        hits == {i \in 1..Len(text) : NeedlesIn(low[i]) \cap stop_indicators # {}}
        first == IF hits = {} THEN 0 ELSE CHOOSE i \in hits : \A j \in hits : i <= j
        \* idx: the character index of the first stop indicator
        idx == IF first = 0 THEN -1 ELSE TextLen(SubSeq(text, 1, first - 1))
    IN  IF first # 0 /\ idx < 3 THEN <<>>
        ELSE
          LET cut == IF first = 0 THEN text ELSE SubSeq(text, 1, first - 1)
              commas == {i \in 1..Len(cut) : cut[i] = ","}
              c1 == IF commas = {} THEN cut
                    ELSE SubSeq(cut, 1, (CHOOSE i \in commas : \A j \in commas : i <= j) - 1)
              c2 == SelectSeq(c1, LAMBDA c : c \notin Honorifics)
              c3 == SelectSeq(c2, LAMBDA c : c \notin EmailChunks)
          IN  Strip(TrimRight(TrimLeft(c3)))

-----------------------------------------------------------------------------
(* Blocks of a detail page.  A block is one element the walk iterates      *)
(* over: its tag name, its text nodes, whether it holds nested block-level *)
(* children, its class, whether it has a style attribute, whether its text *)
(* sits in <a> links.                                                      *)

Tag(n, strs, nest, c, st, ln) ==
    [name |-> n, strings |-> strs, nested |-> nest, cls |-> c, style |-> st,
     links |-> ln]

\* tag.get_text(strip=True)
GetText(tag) == SelectSeq(tag.strings, LAMBDA c : ~IsSpace(c))

RECURSIVE Interleave(_)
Interleave(s) ==
    IF Len(s) <= 1 THEN s ELSE <<Head(s), " ">> \o Interleave(Tail(s))

\* tag.get_text(" ", strip=True)
GetTextSep(tag) == Interleave(GetText(tag))

\* str(tag)
TagHtml(tag) ==
    LET inner == (IF tag.links THEN <<OpenTag("a", TRUE)>> ELSE <<>>)
                 \o (IF tag.strings = <<>> THEN <<>> ELSE <<TextNode(tag.strings)>>)
                 \o (IF tag.links THEN <<CloseTag("a")>> ELSE <<>>)
    IN  <<OpenTag(tag.name, tag.cls # "" \/ tag.style)>>
        \o (IF tag.nested THEN <<OpenTag("p", FALSE)>> \o inner \o <<CloseTag("p")>>
            ELSE inner)
        \o <<CloseTag(tag.name)>>

\* del tag['style']; del tag['class']; every <a> unwrapped  (extract_details)
DetailsScrub(tag) == [tag EXCEPT !.style = FALSE, !.cls = "", !.links = FALSE]

\* a div renamed to p; tag.attrs = {}; every <a> unwrapped  (parsers.py)
ParsersScrub(tag) ==
    [tag EXCEPT !.name = IF tag.name = "div" THEN "p" ELSE tag.name,
                !.style = FALSE, !.cls = "", !.links = FALSE]

-----------------------------------------------------------------------------
(* The section walks.  One visit takes the walk's registers                *)
(*   w = [mode, editors, description, tag, stop]                           *)
(* (tag: the visited block as the visit leaves it in the document) and     *)
(* gives the registers after the loop body has run for that block.         *)

Regs(mode, eds, desc, tag) ==
    [mode |-> mode, editors |-> eds, description |-> desc, tag |-> tag,
     stop |-> FALSE]

\* A plausible slip: the editors branch is not guarded by the mode, so a
\* block collected as description is appended to the editors too.
DetailsCollectAnyMode(w, text) ==
    LET eds == IF TextLen(text) > 2
               THEN Append(w.editors, Strip(SelectSeq(text, LAMBDA c : c # "Email:")))
               ELSE w.editors
    IN  IF w.mode = "description"
           /\ w.tag.name \in {"p", "ul", "ol", "div"} /\ TextLen(text) > 10
        THEN [w EXCEPT !.editors = eds, !.tag = DetailsScrub(@),
                       !.description = Append(@, TagHtml(DetailsScrub(w.tag)))]
        ELSE [w EXCEPT !.editors = eds]

\* --- scripts/scraper.py extract_details, lines 115-135
DetailsCollect(w, text) ==
    IF w.mode = "editors" THEN
        IF TextLen(text) > 2
        THEN [w EXCEPT !.editors =
                 Append(@, Strip(SelectSeq(text, LAMBDA c : c # "Email:")))]
        ELSE w
    ELSE IF w.mode = "description" THEN
        IF w.tag.name \in {"p", "ul", "ol", "div"} /\ TextLen(text) > 10
        THEN [w EXCEPT !.tag = DetailsScrub(@),
                       !.description = Append(@, TagHtml(DetailsScrub(w.tag)))]
        ELSE w
    ELSE w

\* A plausible slip: the break sits below the data collection, so the stop
\* block is collected before the loop is left.
BreakLate(w) == [DetailsCollect(w, GetText(w.tag)) EXCEPT !.stop = TRUE]

\* break
Break(w) == [w EXCEPT !.stop = TRUE]

\* The stop rule of extract_details, lines 111-113.
DetailsStopRule(w, text) ==
    IF \/ Contains(LowerText(text), "manuscript submission")
       \/ Contains(LowerText(text), "keywords:")
    THEN Break(w)
    ELSE DetailsCollect(w, text)

\* --- scripts/scraper.py extract_details, the loop body, lines 96-135
DetailsVisit(w) ==
    LET text == GetText(w.tag)
        text_lower == LowerText(text)
    IN  IF Contains(text_lower, "guest editors") /\ TextLen(text) < 50
        THEN [w EXCEPT !.mode = "editors"]
        ELSE IF Contains(text_lower, "special issue information") /\ TextLen(text) < 100
        THEN [w EXCEPT !.mode = "description"]
        ELSE DetailsStopRule(w, text)

\* --- scripts/parsers.py parse_rse_sciencedirect, lines 174-192
RseCollect(w, text) ==
    IF w.mode = "editors" THEN
        IF TextLen(text) < 300
        THEN LET pure_name == extract_pure_name(text) IN
             IF /\ pure_name # <<>>
                /\ ~Contains(pure_name, "@")
                /\ TextLen(pure_name) > 2
             THEN [w EXCEPT !.editors = Append(@, pure_name)]
             ELSE w
        ELSE w
    ELSE IF w.mode = "description" THEN
        IF is_metadata_line(text) THEN w
        ELSE IF w.tag.name \in {"p", "ul", "ol", "div"}
        THEN IF w.tag.name = "div" /\ TextLen(text) < 30 THEN w
             ELSE [w EXCEPT !.tag = ParsersScrub(@),
                            !.description = Append(@, TagHtml(ParsersScrub(w.tag)))]
        ELSE w
    ELSE w

\* The heading rules of parse_rse_sciencedirect, lines 166-172.
RseHeadingRules(w, text) ==
    LET text_lower == LowerText(text) IN
    IF Contains(text_lower, "guest editors") /\ TextLen(text) < 100
    THEN [w EXCEPT !.mode = "editors"]
    ELSE IF /\ \/ Contains(text_lower, "special issue info")
               \/ Contains(text_lower, "aims and scope")
            /\ TextLen(text) < 100
    THEN [w EXCEPT !.mode = "description"]
    ELSE IF Contains(text_lower, "science direct") THEN w
    ELSE RseCollect(w, text)

\* --- scripts/parsers.py parse_rse_sciencedirect, the loop body, lines 158-192
RseVisit(w) ==
    IF w.tag.nested THEN w
    ELSE
      LET text == GetTextSep(w.tag)
          text_lower == LowerText(text)
      IN  IF TextLen(text) < 3 THEN w
          ELSE IF \/ Contains(text_lower, "manuscript submission")
                  \/ Contains(text_lower, "keywords:")
          THEN Break(w)
          ELSE RseHeadingRules(w, text)

\* --- scripts/parsers.py parse_cities_sciencedirect, the loop body, lines 95-110
CitiesVisit(w) ==
    IF w.tag.nested THEN w
    ELSE
      LET text == GetText(w.tag)
          low == LowerText(text)
      IN  IF Contains(low, "guest editors") THEN w
          ELSE IF Contains(low, "manuscript submission") THEN Break(w)
          ELSE IF Contains(low, "university") THEN w
          ELSE IF is_metadata_line(text) THEN w
          ELSE IF TextLen(text) < 10 THEN w
          ELSE [w EXCEPT !.tag = ParsersScrub(@),
                         !.description = Append(@, TagHtml(ParsersScrub(w.tag)))]

RECURSIVE CitiesEditorsOf(_)
\* --- scripts/parsers.py parse_cities_sciencedirect, the editor pass, lines 113-123
CitiesEditorsOf(blocks) ==
    IF blocks = <<>> THEN <<>>
    ELSE
      LET div == Head(blocks)
          rest == CitiesEditorsOf(Tail(blocks))
          text == GetText(div)
          low == LowerText(text)
          pure_name == extract_pure_name(text)
      IN  IF ~(div.name = "div" /\ div.cls = "OutlineElement") THEN rest
          ELSE IF Contains(low, "submit") \/ Contains(low, "guide") THEN rest
          ELSE IF /\ TextLen(text) > 2
                  /\ ~Contains(low, "guest editors")
                  /\ TextLen(pure_name) > 2
                  /\ TextLen(pure_name) < 40
          THEN <<pure_name>> \o rest
          ELSE rest

RECURSIVE Dedup(_)
\* list(dict.fromkeys(xs)): the first occurrence of each value, in order.
Dedup(xs) ==
    IF xs = <<>> THEN <<>>
    ELSE LET front == Dedup(SubSeq(xs, 1, Len(xs) - 1))
             x == xs[Len(xs)]
         IN  IF \E i \in 1..Len(front) : front[i] = x THEN front ELSE Append(front, x)

\* The results the parsers return.
Triple(d, e, desc) == [deadline |-> d, editors |-> e, description |-> desc]

Placeholder ==
    <<TextNode(<<"Detailed description available on the official website.">>)>>

\* parsers.default_fallback
default_fallback == Triple(<<"Unknown">>, <<"Unknown">>, <<>>)

\* scripts/scraper.py extract_details, lines 48-49
DetailsNoSoup == Triple(<<"Unknown">>, <<"Unknown">>, <<>>)

\* scripts/scraper.py extract_details, lines 139-151
DetailsAssemble(dl, eds, desc) ==
    Triple(dl,
           IF eds # <<>> THEN JoinWith(<<"<br>">>, eds)
           ELSE <<"Editors info not found.">>,
           IF Flatten(desc) # <<>> THEN Flatten(desc) ELSE Placeholder)

\* scripts/parsers.py parse_rse_sciencedirect, lines 194-200
RseAssemble(dl, eds, desc) ==
    Triple(dl,
           IF Dedup(eds) # <<>> THEN JoinWith(<<"<br>">>, Dedup(eds))
           ELSE <<"See website">>,
           clean_html_attributes(Flatten(desc)))

\* scripts/parsers.py parse_cities_sciencedirect, lines 125-129
CitiesAssemble(dl, eds, desc) ==
    Triple(dl,
           IF eds # <<>> THEN JoinWith(<<"<br>">>, eds) ELSE <<"See website">>,
           clean_html_attributes(Flatten(desc)))

-----------------------------------------------------------------------------
(* Documents.  A ParsedDocument is None (avail = FALSE) or a tree, of      *)
(* which the parsers read: the labelled deadline date in its text          *)
(* (deadlineStr, <<>> when there is none), whether the anchor the parser   *)
(* looks for exists (a div/p around the "Submission deadline" string, the  *)
(* div.inner/main/body container, the "Call for papers" heading), and the  *)
(* elements that follow the anchor in document order.                      *)

MaxBlocks == 3

GuestHeading  == Tag("h3",  <<"Guest editors">>, FALSE, "", FALSE, FALSE)
EditorDiv     == Tag("div", <<"Dr.", "Jane Doe", ",", "University of X">>,
                     FALSE, "OutlineElement", FALSE, FALSE)
EditorPlain   == Tag("div", <<"Prof.", "Jane Doe">>, FALSE, "OutlineElement", FALSE, FALSE)
InfoHeading   == Tag("p",   <<"Special issue information">>, FALSE, "", FALSE, FALSE)
ContentPara   == Tag("p",   <<"This issue focuses on X.">>, FALSE, "", TRUE, TRUE)
SubmissionPara == Tag("p",  <<"Manuscript submission">>, FALSE, "", FALSE, FALSE)
\* "guest editors" and a stop marker in one short block
GuestKeywords == Tag("p",   <<"GUEST EDITORS", "Keywords:">>, FALSE, "", FALSE, FALSE)
\* "guest editors" and "special issue information" in one short block
GuestInfo     == Tag("p",   <<"Guest editors", "Special issue information">>,
                     FALSE, "", FALSE, FALSE)
\* "guest editors" in a block of 50 to 99 characters
GuestLong     == Tag("p",   <<"Guest editors", "This issue focuses on X.",
                              "This issue focuses on X.">>, FALSE, "", FALSE, FALSE)
\* a block that holds nested block-level children
Container     == Tag("div", <<"This issue focuses on X.">>, TRUE, "", FALSE, FALSE)

BlockPool ==
    {GuestHeading, EditorPlain, InfoHeading, ContentPara, SubmissionPara,
     GuestKeywords, GuestInfo, GuestLong, Container}

NoSoup == [avail |-> FALSE, deadlineStr |-> <<>>, anchor |-> FALSE, blocks |-> <<>>]

Soups ==
    {NoSoup} \cup
    [avail : {TRUE}, deadlineStr : {<<>>, <<"14 March 2026">>}, anchor : BOOLEAN,
     blocks : SeqsUpTo(BlockPool, MaxBlocks)]

\* soup([...]) ... tag.decompose(): the noise elements leave the document.
NoiseTags == {"header", "footer", "nav", "script", "style", "noscript", "iframe"}
Decomposed(sp) ==
    [sp EXCEPT !.blocks = SelectSeq(@, LAMBDA t : t.name \notin NoiseTags)]

Parsers == {"extract_details", "parse_rse_sciencedirect", "parse_cities_sciencedirect"}

\* The element names each walk iterates over (find_next_siblings() takes
\* every sibling; find_all_next takes the names it is given).
Listed(parser, tag) ==
    CASE parser = "extract_details"            -> TRUE
      [] parser = "parse_rse_sciencedirect"    -> tag.name \in {"p", "div", "ul", "ol", "h3"}
      [] parser = "parse_cities_sciencedirect" -> tag.name \in {"p", "ul", "div"}

\* The loop body of each parser.
VisitOf(parser, w) ==
    IF ~Listed(parser, w.tag) THEN w
    ELSE CASE parser = "extract_details"            -> DetailsVisit(w)
           [] parser = "parse_rse_sciencedirect"    -> RseVisit(w)
           [] parser = "parse_cities_sciencedirect" -> CitiesVisit(w)

WalkInit ==
    /\ wparser \in Parsers
    /\ soup \in Soups
    /\ wpc = "start"
    /\ widx = 1
    /\ current_mode = "description"
    /\ editors_parts = <<>>
    /\ description_parts = <<>>
    /\ deadline = <<>>
    /\ details = Triple(<<>>, <<>>, <<>>)

WalkIdle ==
    /\ wparser = "none"
    /\ soup = NoSoup
    /\ wpc = "idle"
    /\ widx = 1
    /\ current_mode = "description"
    /\ editors_parts = <<>>
    /\ description_parts = <<>>
    /\ deadline = <<>>
    /\ details = Triple(<<>>, <<>>, <<>>)

\* The parser returns at once.
Return(t) ==
    /\ details' = t
    /\ wpc' = "done"
    /\ UNCHANGED <<wparser, soup, widx, current_mode, editors_parts,
                   description_parts, deadline>>

\* The parser goes on to its walk (or past it, when there is nothing to walk).
Enter(sp, dl, walks) ==
    /\ soup' = sp
    /\ deadline' = dl
    /\ wpc' = IF walks /\ sp.blocks # <<>> THEN "walk" ELSE "assemble"
    /\ UNCHANGED <<wparser, widx, current_mode, editors_parts,
                   description_parts, details>>

\* extract_details, lines 48-93
DetailsStart ==
    /\ UNCHANGED <<runVars, routerVars, cleanVars>>
    /\ wpc = "start" /\ wparser = "extract_details"
    /\ IF ~soup.avail THEN Return(DetailsNoSoup)
       ELSE Enter(Decomposed(soup),
                  IF soup.deadlineStr # <<>> THEN soup.deadlineStr
                  ELSE <<"Check Detail">>,
                  soup.deadlineStr # <<>> /\ soup.anchor)

\* parse_rse_sciencedirect, lines 135-155
RseStart ==
    /\ UNCHANGED <<runVars, routerVars, cleanVars>>
    /\ wpc = "start" /\ wparser = "parse_rse_sciencedirect"
    /\ IF ~soup.avail THEN Return(default_fallback)
       ELSE IF ~soup.anchor
       THEN /\ soup' = Decomposed(soup)
            /\ details' = default_fallback
            /\ wpc' = "done"
            /\ UNCHANGED <<wparser, widx, current_mode, editors_parts,
                           description_parts, deadline>>
       ELSE Enter(Decomposed(soup),
                  IF soup.deadlineStr # <<>> THEN soup.deadlineStr
                  ELSE <<"Check Link">>,
                  TRUE)

\* parse_cities_sciencedirect, lines 79-93
CitiesStart ==
    /\ UNCHANGED <<runVars, routerVars, cleanVars>>
    /\ wpc = "start" /\ wparser = "parse_cities_sciencedirect"
    /\ IF ~soup.avail THEN Return(default_fallback)
       ELSE Enter(soup,
                  IF soup.deadlineStr # <<>> THEN soup.deadlineStr
                  ELSE <<"Check Link">>,
                  soup.anchor)

\* One iteration of the for loop of the running parser.
Visit ==
    /\ UNCHANGED <<runVars, routerVars, cleanVars>>
    /\ wpc = "walk"
    /\ LET r == VisitOf(wparser, Regs(current_mode, editors_parts,
                                      description_parts, soup.blocks[widx]))
       IN  /\ current_mode' = r.mode
           /\ editors_parts' = r.editors
           /\ description_parts' = r.description
           /\ soup' = [soup EXCEPT !.blocks[widx] = r.tag]
           /\ widx' = IF r.stop THEN widx ELSE widx + 1
           /\ wpc' = IF r.stop \/ widx + 1 > Len(soup.blocks) THEN "assemble" ELSE "walk"
    /\ UNCHANGED <<wparser, deadline, details>>

\* extract_details, lines 137-151
DetailsReturn ==
    /\ UNCHANGED <<runVars, routerVars, cleanVars>>
    /\ wpc = "assemble" /\ wparser = "extract_details"
    /\ details' = DetailsAssemble(deadline, editors_parts, description_parts)
    /\ wpc' = "done"
    /\ UNCHANGED <<wparser, soup, widx, current_mode, editors_parts,
                   description_parts, deadline>>

\* parse_rse_sciencedirect, lines 194-200
RseReturn ==
    /\ UNCHANGED <<runVars, routerVars, cleanVars>>
    /\ wpc = "assemble" /\ wparser = "parse_rse_sciencedirect"
    /\ details' = RseAssemble(deadline, editors_parts, description_parts)
    /\ wpc' = "done"
    /\ UNCHANGED <<wparser, soup, widx, current_mode, editors_parts,
                   description_parts, deadline>>

\* parse_cities_sciencedirect, lines 112-129: the editor pass over the
\* document as the description walk left it, then the result.
CitiesReturn ==
    /\ UNCHANGED <<runVars, routerVars, cleanVars>>
    /\ wpc = "assemble" /\ wparser = "parse_cities_sciencedirect"
    /\ editors_parts' = CitiesEditorsOf(soup.blocks)
    /\ details' = CitiesAssemble(deadline, CitiesEditorsOf(soup.blocks),
                                 description_parts)
    /\ wpc' = "done"
    /\ UNCHANGED <<wparser, soup, widx, current_mode, description_parts, deadline>>

WalkNext ==
    \/ DetailsStart \/ RseStart \/ CitiesStart
    \/ Visit
    \/ DetailsReturn \/ RseReturn \/ CitiesReturn

-----------------------------------------------------------------------------
(* clean_html_attributes called on an HTML string, then on its own output. *)

MaxTokens == 6
MaxCleanCalls == 2

CleanAlphabet ==
    {OpenTag("p", TRUE), CloseTag("p"), OpenTag("span", FALSE), OpenTag("br", FALSE),
     TextNode(<<" ">>), TextNode(<<"x">>)}

CleanInit ==
    /\ html_content \in SeqsUpTo(CleanAlphabet, MaxTokens)
    /\ cleaned = <<>>
    /\ first_cleaned = <<>>
    /\ clean_calls = 0

CleanIdle ==
    /\ html_content = <<>>
    /\ cleaned = <<>>
    /\ first_cleaned = <<>>
    /\ clean_calls = 0

\* cleaned = clean_html_attributes(html_content)
CleanCall ==
    /\ UNCHANGED <<runVars, walkVars, routerVars>>
    /\ clean_calls = 0
    /\ cleaned' = clean_html_attributes(html_content)
    /\ first_cleaned' = clean_html_attributes(html_content)
    /\ clean_calls' = 1
    /\ UNCHANGED html_content

\* cleaned = clean_html_attributes(cleaned)
CleanAgain ==
    /\ UNCHANGED <<runVars, walkVars, routerVars>>
    /\ clean_calls >= 1 /\ clean_calls < MaxCleanCalls
    /\ html_content' = cleaned
    /\ cleaned' = clean_html_attributes(cleaned)
    /\ clean_calls' = clean_calls + 1
    /\ UNCHANGED first_cleaned

CleanNext == CleanCall \/ CleanAgain

-----------------------------------------------------------------------------
(* get_parser.  A journal name is a sequence of characters.                *)

MaxPad == 1

UpperLetters == <<"A", "B", "C", "D", "E", "F", "G", "H", "I", "J", "K", "L", "M",
                  "N", "O", "P", "Q", "R", "S", "T", "U", "V", "W", "X", "Y", "Z">>
LowerLetters == <<"a", "b", "c", "d", "e", "f", "g", "h", "i", "j", "k", "l", "m",
                  "n", "o", "p", "q", "r", "s", "t", "u", "v", "w", "x", "y", "z">>

LowerChar(c) ==
    IF \E i \in 1..26 : UpperLetters[i] = c
    THEN LowerLetters[CHOOSE i \in 1..26 : UpperLetters[i] = c]
    ELSE c

\* A plausible slip: the name is matched as it is written.
NameAsIs(name) == name

\* journal_name.lower()
NameLower(name) == [i \in 1..Len(name) |-> LowerChar(name[i])]

\* needle in s, for character sequences
InStr(needle, s) ==
    \E i \in 1..(Len(s) - Len(needle) + 1) : SubSeq(s, i, i + Len(needle) - 1) = needle

KeyCities   == <<"c", "i", "t", "i", "e", "s">>
KeyRemote   == <<"r", "e", "m", "o", "t", "e", " ", "s", "e", "n", "s", "i", "n", "g">>
KeyBuilding == <<"b", "u", "i", "l", "d", "i", "n", "g", " ", "a", "n", "d", " ", "e", "n", "v", "i", "r", "o", "n", "m", "e", "n", "t">>

\* parsers.get_parser
get_parser(name) ==
    LET name_lower == NameLower(name) IN
    IF InStr(KeyCities, name_lower) THEN "parse_cities_sciencedirect"
    ELSE IF InStr(KeyRemote, name_lower) \/ InStr(KeyBuilding, name_lower)
    THEN "parse_rse_sciencedirect"
    ELSE "parse_rse_sciencedirect"

NameCores ==
    {<<"C", "i", "t", "i", "e", "s">>,
     <<"C", "I", "T", "I", "E", "S">>,
     <<"i", "t", "i", "e", "s">>,
     <<"C", "i", "t", "y", "s">>,
     <<"R", "e", "m", "o", "t", "e", " ", "S", "e", "n", "s", "i", "n", "g", " ", "o", "f", " ", "E", "n", "v", "i", "r", "o", "n", "m", "e", "n", "t">>,
     <<"B", "u", "i", "l", "d", "i", "n", "g", " ", "a", "n", "d", " ", "E", "n", "v", "i", "r", "o", "n", "m", "e", "n", "t">>,
     <<"C", "o", "m", "p", "u", "t", "e", "r", "s", ",", " ", "E", "n", "v", "i", "r", "o", "n", "m", "e", "n", "t", " ", "a", "n", "d", " ", "U", "r", "b", "a", "n", " ", "S", "y", "s", "t", "e", "m", "s">>,
     <<"S", "u", "s", "t", "a", "i", "n", "a", "b", "l", "e", " ", "C", "i", "t", "i", "e", "s", " ", "a", "n", "d", " ", "S", "o", "c", "i", "e", "t", "y">>,
     <<"V", "e", "l", "o", "c", "i", "t", "i", "e", "s">>,
     <<>>}

PadChars == {"c", "C", " "}

JournalNames ==
    {pre \o core \o suf : pre \in SeqsUpTo(PadChars, MaxPad), core \in NameCores,
                          suf \in SeqsUpTo(PadChars, MaxPad)}

RouterInit ==
    /\ journal_name \in JournalNames
    /\ parser_func = "none"

RouterIdle ==
    /\ journal_name = <<>>
    /\ parser_func = "none"

\* parser_func = get_parser(journal_name)   (scraper_local.py line 19)
GetParser ==
    /\ UNCHANGED <<runVars, walkVars, cleanVars>>
    /\ parser_func = "none"
    /\ parser_func' = get_parser(journal_name)
    /\ UNCHANGED journal_name

RouterNext == GetParser

-----------------------------------------------------------------------------
(* A scrape run: scripts/scraper.py main() ("scripts") and scraper.py      *)
(* JournalScraper.scrape_all() ("legacy").                                 *)
(* A Python value that may be None is Str(v) or None; a dict is a function *)
(* from its keys.  A URL is a chunk sequence that begins with the chunk    *)
(* "http" exactly when the URL starts with "http".                         *)

MaxLinks == 2
MaxJournals == 2
\* range(3) in get_soup, links[:5] in parse_journal, issue_sections[:10]
Retries == 3
ListCap == 5
SectionCap == 10

Str(v) == [none |-> FALSE, v |-> v]
None   == [none |-> TRUE,  v |-> <<>>]

SiteRoot == <<"http", "s://www.sciencedirect.com">>
Today == <<"YYYY-MM-DD">>

RECURSIVE DetailsFold(_, _, _)
\* The for loop of extract_details over the siblings from the i-th on.
DetailsFold(w, blocks, i) ==
    IF i > Len(blocks) THEN w
    ELSE LET r == DetailsVisit([w EXCEPT !.tag = blocks[i]])
         IN  IF r.stop THEN r ELSE DetailsFold(r, blocks, i + 1)

\* scripts/scraper.py extract_details, as one call
extract_details(sp) ==
    IF ~sp.avail THEN DetailsNoSoup
    ELSE LET d == Decomposed(sp)
             dl == IF sp.deadlineStr # <<>> THEN sp.deadlineStr ELSE <<"Check Detail">>
             w == IF sp.deadlineStr # <<>> /\ sp.anchor /\ d.blocks # <<>>
                  THEN DetailsFold(Regs("description", <<>>, <<>>, d.blocks[1]),
                                   d.blocks, 1)
                  ELSE Regs("description", <<>>, <<>>, ContentPara)
         IN  DetailsAssemble(dl, w.editors, w.description)

\* The detail pages a deep fetch may bring back (None: the fetch failed).
DetailSoups ==
    {NoSoup,
     [avail |-> TRUE, deadlineStr |-> <<"14 March 2026">>, anchor |-> TRUE,
      blocks |-> <<GuestHeading, EditorDiv, InfoHeading, ContentPara, SubmissionPara>>]}

\* <a> elements of a listing page (scripts): the link text and the href.
Link(t, h) == [title |-> t, href |-> h]
LinkPool ==
    {Link(<<"Urban Climate Risk">>, Str(<<"/special-issue/", "a">>)),
     Link(<<"Urban Climate Risk">>, Str(SiteRoot \o <<"/special-issue/", "a">>)),
     Link(<<>>, Str(<<"/special-issue/", "b">>)),
     Link(<<"Heat Islands">>, Str(<<"/special-issue/", "b">>))}

\* Sections of a listing page (legacy): whether a heading is found, its
\* text, the text of the parent, whether an <a> is found in the section or
\* its parent, and that link's href (None: the attribute is missing).
Section(h, t, c, l, hr) ==
    [heading |-> h, title |-> t, content |-> c, link |-> l, href |-> hr]
SectionPool ==
    {Section(TRUE, <<"Urban Climate Risk">>,
             <<"Urban Climate Risk", "Submission deadline", "14 March 2026",
               "Guest editors", "Jane Doe", ".",
               "This special issue invites contributions on urban climate risk">>,
             TRUE, Str(<<"/special-issue/", "a">>)),
     Section(TRUE, <<"Urban Climate Risk">>, <<"Urban Climate Risk">>, TRUE, None),
     Section(TRUE, <<"Heat Islands">>, <<"Heat Islands">>, FALSE, None),
     Section(TRUE, <<"Coastal Remote Sensing">>, <<"Coastal Remote Sensing">>,
             TRUE, Str(<<>>)),
     Section(TRUE, <<"About">>, <<"About">>, TRUE,
             Str(SiteRoot \o <<"/special-issue/", "a">>)),
     Section(FALSE, <<>>, <<"Jane Doe">>, FALSE, None)}

Journal(n, u) == [name |-> n, url |-> u, type |-> "elsevier"]
RSE    == Journal("Remote Sensing of Environment",
                  SiteRoot \o <<"/journal/remote-sensing-of-environment/about/call-for-papers">>)
Cities == Journal("Cities", SiteRoot \o <<"/journal/cities/about/call-for-papers">>)

\* scraper.py lines 20-31
LegacyJournals == <<RSE, Cities>>

\* url.startswith('http')
StartsWithHttp(u) == u # <<>> /\ u[1] = "http"

\* A plausible slip: a journal without records is left out of the results.
AppendJournalIfAny(res, journal, iss) ==
    IF iss = <<>> THEN res
    ELSE Append(res, [name |-> journal.name, url |-> journal.url, special_issues |-> iss])

\* One entry of results['journals'] (scripts/scraper.py 212-216,
\* scraper.py 180-189).
AppendJournal(res, journal, iss) ==
    Append(res, [name |-> journal.name, url |-> journal.url, special_issues |-> iss])

\* scripts/scraper.py parse_journal, lines 187-194
ScriptsRecord(title, url, d) ==
    [title |-> Str(title), url |-> Str(url), deadline |-> Str(d.deadline),
     guest_editors |-> Str(d.editors), description |-> Str(d.description),
     last_updated |-> Str(Today)]

\* scraper.py extract_deadline: the first date in the text, else None
LegacyDeadline(text) ==
    LET hits == {i \in 1..Len(text) : text[i] \in DateChunks} IN
    IF hits = {} THEN None
    ELSE Str(<<text[CHOOSE i \in hits : \A j \in hits : i <= j]>>)

\* scraper.py extract_editors: what follows "guest editors" up to the next
\* full stop, when shorter than 200 characters, else None
LegacyEditors(text) ==
    LET low == LowerText(text)
        hits == {i \in 1..(Len(text) - 1) : low[i] = "guest editors" /\ text[i + 1] # "."}
    IN  IF hits = {} THEN None
        ELSE LET e == <<text[(CHOOSE i \in hits : \A j \in hits : i <= j) + 1]>>
             IN  IF TextLen(e) < 200 THEN Str(e) ELSE None

\* scraper.py extract_description: the first sentence of more than 50
\* characters of the text without the title, else None
LegacyDescription(text, title) ==
    LET body == SelectSeq(text, LAMBDA c : <<c>> # title)
        hits == {i \in 1..Len(body) : Len(body[i]) > 50}
    IN  IF hits = {} THEN None
        ELSE Str(<<body[CHOOSE i \in hits : \A j \in hits : i <= j], ".">>)

\* scraper.py extract_issue_info, lines 96-100
LegacyUrl(sec, base_url) ==
    LET url == IF sec.link THEN sec.href ELSE Str(base_url) IN
    IF ~url.none /\ url.v # <<>> /\ ~StartsWithHttp(url.v)
    THEN Str(SiteRoot \o url.v)
    ELSE url

GenericTitles == {<<"special issues">>, <<"call for papers">>, <<"about">>}

\* scraper.py extract_issue_info: the dict, or None for a section it skips
extract_issue_info(sec, base_url) ==
    IF ~sec.heading THEN None
    ELSE IF TextLen(sec.title) < 10 \/ LowerText(sec.title) \in GenericTitles THEN None
    ELSE [title |-> Str(sec.title),
          deadline |-> LegacyDeadline(sec.content),
          guest_editors |-> LegacyEditors(sec.content),
          description |-> LegacyDescription(sec.content, sec.title),
          url |-> LegacyUrl(sec, base_url)]

RunInit ==
    /\ prog \in {"scripts", "legacy"}
    /\ api_key \in (IF prog = "scripts" THEN BOOLEAN ELSE {TRUE})
    /\ journals \in (IF prog = "scripts" THEN SeqsUpTo({RSE, Cities}, MaxJournals)
                     ELSE {LegacyJournals})
    /\ jidx = 1
    /\ rpc = "main"
    /\ attempt = 0
    /\ links = <<>>
    /\ lidx = 1
    /\ seen_urls = {}
    /\ issues = <<>>
    /\ results = <<>>

RunIdle ==
    /\ prog = "none"
    /\ api_key = FALSE
    /\ journals = <<>>
    /\ jidx = 1
    /\ rpc = "idle"
    /\ attempt = 0
    /\ links = <<>>
    /\ lidx = 1
    /\ seen_urls = {}
    /\ issues = <<>>
    /\ results = <<>>

Min(a, b) == IF a <= b THEN a ELSE b

\* How many candidates of the listing the loop takes.
Taken == Min(Len(links), IF prog = "scripts" THEN ListCap ELSE SectionCap)

\* scripts/scraper.py main, lines 202-208
Main ==
    /\ UNCHANGED <<walkVars, routerVars, cleanVars>>
    /\ rpc = "main" /\ prog = "scripts"
    /\ rpc' = IF journals = <<>> THEN "returned" ELSE "get_soup"
    /\ UNCHANGED <<prog, api_key, journals, jidx, attempt, links, lidx, seen_urls,
                   issues, results>>

\* scraper.py scrape_all, lines 174-179
ScrapeAll ==
    /\ UNCHANGED <<walkVars, routerVars, cleanVars>>
    /\ rpc = "main" /\ prog = "legacy"
    /\ rpc' = "request"
    /\ UNCHANGED <<prog, api_key, journals, jidx, attempt, links, lidx, seen_urls,
                   issues, results>>

\* The listing is in: the loop over its candidates starts.
Listing(l, at) ==
    /\ links' = l
    /\ lidx' = 1
    /\ seen_urls' = {}
    /\ issues' = <<>>
    /\ attempt' = 0
    /\ rpc' = at

\* The listing is not to be had.
Unavailable ==
    /\ rpc' = "unavailable"
    /\ attempt' = 0
    /\ UNCHANGED <<links, lidx, seen_urls, issues>>

\* scripts/scraper.py get_soup for the listing page (lines 20-42), one
\* request per step, and parse_journal lines 155-163
GetSoup ==
    /\ UNCHANGED <<walkVars, routerVars, cleanVars>>
    /\ rpc = "get_soup"
    /\ IF ~api_key THEN Unavailable
       ELSE \E status \in {"200", "non200", "exception"} :
              CASE status = "200" ->
                     \E l \in SeqsUpTo(LinkPool, MaxLinks) : Listing(l, "links")
                [] status = "non200" ->
                     IF attempt + 1 >= Retries THEN Unavailable
                     ELSE /\ attempt' = attempt + 1
                          /\ UNCHANGED <<rpc, links, lidx, seen_urls, issues>>
                [] status = "exception" -> Unavailable
    /\ UNCHANGED <<prog, api_key, journals, jidx, results>>

\* scraper.py scrape_elsevier_journal, lines 37-50 and 58-62
Request ==
    /\ UNCHANGED <<walkVars, routerVars, cleanVars>>
    /\ rpc = "request"
    /\ \E status \in {"200", "non200", "exception"} :
         IF status = "200"
         THEN \E l \in SeqsUpTo(SectionPool, MaxLinks) : Listing(l, "sections")
         ELSE Unavailable
    /\ UNCHANGED <<prog, api_key, journals, jidx, results>>

\* scripts/scraper.py parse_journal, one iteration of the loop, lines 167-194
ProcessLink ==
    /\ UNCHANGED <<walkVars, routerVars, cleanVars>>
    /\ rpc = "links" /\ lidx <= Taken
    /\ LET link == links[lidx]
           title == Strip(link.title)
           href == link.href
           url == IF StartsWithHttp(href.v) THEN href.v ELSE SiteRoot \o href.v
       IN  IF title = <<>> \/ href.none \/ href.v = <<>>
           THEN UNCHANGED <<seen_urls, issues>>
           ELSE IF url \in seen_urls
           THEN UNCHANGED <<seen_urls, issues>>
           ELSE /\ seen_urls' = seen_urls \cup {url}
                /\ \E detail_soup \in DetailSoups :
                     issues' = Append(issues,
                                      ScriptsRecord(title, url, extract_details(detail_soup)))
    /\ lidx' = lidx + 1
    /\ UNCHANGED <<prog, api_key, journals, jidx, rpc, attempt, links, results>>

\* scraper.py scrape_elsevier_journal, one iteration of the loop, lines 52-55
ProcessSection ==
    /\ UNCHANGED <<walkVars, routerVars, cleanVars>>
    /\ rpc = "sections" /\ lidx <= Taken
    /\ LET issue_data == extract_issue_info(links[lidx], journals[jidx].url)
       IN  issues' = IF issue_data # None THEN Append(issues, issue_data) ELSE issues
    /\ lidx' = lidx + 1
    /\ UNCHANGED <<prog, api_key, journals, jidx, rpc, attempt, links, seen_urls, results>>

\* The journal's records go into the results and the next journal is up
\* (scripts/scraper.py 210-216, scraper.py 179-189).
NextJournal(iss) ==
    /\ results' = AppendJournal(results, journals[jidx], iss)
    /\ jidx' = jidx + 1
    /\ rpc' = IF jidx + 1 > Len(journals) THEN "save"
              ELSE IF prog = "scripts" THEN "get_soup" ELSE "request"
    \* the call has returned: its locals are gone
    /\ links' = <<>>
    /\ lidx' = 1
    /\ seen_urls' = {}
    /\ issues' = <<>>
    /\ UNCHANGED <<prog, api_key, journals, attempt>>

\* parse_journal's "if not soup: return []" (line 158); scrape_elsevier_journal
\* returning its still empty list (line 67)
ListingUnavailable ==
    /\ UNCHANGED <<walkVars, routerVars, cleanVars>>
    /\ rpc = "unavailable"
    /\ NextJournal(<<>>)

\* parse_journal line 196, scrape_elsevier_journal line 67: the loop is over
JournalDone ==
    /\ UNCHANGED <<walkVars, routerVars, cleanVars>>
    /\ rpc \in {"links", "sections"} /\ lidx > Taken
    /\ NextJournal(issues)

\* json.dump (scripts/scraper.py 218-220, scraper.py 193-198)
Save ==
    /\ UNCHANGED <<walkVars, routerVars, cleanVars>>
    /\ rpc = "save"
    /\ rpc' = "saved"
    /\ UNCHANGED <<prog, api_key, journals, jidx, attempt, links, lidx, seen_urls,
                   issues, results>>

RunNext ==
    \/ Main \/ ScrapeAll
    \/ GetSoup \/ Request
    \/ ProcessLink \/ ProcessSection
    \/ ListingUnavailable \/ JournalDone
    \/ Save

-----------------------------------------------------------------------------
(* The specifications.  Each runs one part of the program; the variables   *)
(* of the other parts rest.                                                *)

Init == RunInit /\ WalkIdle /\ RouterIdle /\ CleanIdle
Next == RunNext
Spec == Init /\ [][Next]_vars

WalkSpecInit == WalkInit /\ RunIdle /\ RouterIdle /\ CleanIdle
WalkSpec == WalkSpecInit /\ [][WalkNext]_vars

RouterSpecInit == RouterInit /\ RunIdle /\ WalkIdle /\ CleanIdle
RouterSpec == RouterSpecInit /\ [][RouterNext]_vars

CleanSpecInit == CleanInit /\ RunIdle /\ WalkIdle /\ RouterIdle
CleanSpec == CleanSpecInit /\ [][CleanNext]_vars

-----------------------------------------------------------------------------
(* Properties of the section walks, checked under WalkSpec.                *)

\* The parsers whose walk keeps a state (description / editors / stop).
ModeWalks == {"extract_details", "parse_rse_sciencedirect"}

\* The text the walk of a parser reads from a block.
WalkText(parser, tag) ==
    IF parser = "extract_details" THEN GetText(tag) ELSE GetTextSep(tag)

\* The walk reads the block's text and puts it to its rules: parse_rse
\* passes over a block with nested block-level children or under 3 characters.
Examined(parser, tag) ==
    /\ Listed(parser, tag)
    /\ parser = "parse_rse_sciencedirect" =>
           ~tag.nested /\ TextLen(WalkText(parser, tag)) >= 3

HasStopMarker(parser, tag) ==
    \/ Contains(LowerText(WalkText(parser, tag)), "manuscript submission")
    \/ Contains(LowerText(WalkText(parser, tag)), "keywords:")

\* "guest editors" in a block of fewer than limit characters
GuestHeadingBlock(parser, tag, limit) ==
    /\ Contains(LowerText(WalkText(parser, tag)), "guest editors")
    /\ TextLen(WalkText(parser, tag)) < limit

\* "special issue information" in a block of fewer than 100 characters
InfoHeadingBlock(parser, tag) ==
    /\ Contains(LowerText(WalkText(parser, tag)), "special issue information")
    /\ TextLen(WalkText(parser, tag)) < 100

\* The step leaves both accumulators as they are.
AccumulatorsKept ==
    /\ editors_parts' = editors_parts
    /\ description_parts' = description_parts

\* The step is a visit on which the walk stops: it ends at the block it is on.
StopStep == wpc = "walk" /\ wpc' = "assemble" /\ widx' = widx

\* The step is a visit of a block the mode walk examines.
ExaminedVisit ==
    /\ wpc = "walk"
    /\ wparser \in ModeWalks
    /\ Examined(wparser, soup.blocks[widx])

\* C1: in extract_details and parse_rse_sciencedirect, the visit on which
\* the walk stops leaves the editors and description accumulators exactly as
\* they were before the stop block was visited, and from then on (assembly,
\* return) the accumulators stay the same and no later block is visited.
C1_StopContributesNothing ==
    [][ (wparser \in ModeWalks /\ (StopStep \/ wpc \in {"assemble", "done"}))
        => (AccumulatorsKept /\ widx' = widx) ]_vars

\* A walk has collected a block, stopped, and returned with blocks left
\* after the stop block.
C1_Witness ==
    /\ wparser \in ModeWalks
    /\ wpc = "done"
    /\ widx < Len(soup.blocks)
    /\ HasStopMarker(wparser, soup.blocks[widx])
    /\ description_parts # <<>>

\* C2: every examined block whose text contains "manuscript submission" or
\* "keywords:" stops the walk at that block, whatever else its text
\* contains; it never switches the state and the walk never goes past it.
C2_StopHasPriority ==
    [][ (ExaminedVisit /\ HasStopMarker(wparser, soup.blocks[widx]))
        => (StopStep /\ current_mode' = current_mode) ]_vars

\* A visit appends to the accumulator of the current state only, and at
\* most one entry.
RoutedByState ==
    /\ editors_parts' # editors_parts =>
           /\ current_mode = "editors"
           /\ description_parts' = description_parts
           /\ Len(editors_parts') = Len(editors_parts) + 1
           /\ SubSeq(editors_parts', 1, Len(editors_parts)) = editors_parts
    /\ description_parts' # description_parts =>
           /\ current_mode = "description"
           /\ editors_parts' = editors_parts
           /\ Len(description_parts') = Len(description_parts) + 1
           /\ SubSeq(description_parts', 1, Len(description_parts)) = description_parts

\* The first block is visited in state description.
StartsInDescription == (wpc = "walk" /\ widx = 1) => current_mode = "description"

\* C3 as stated: the walk starts in state description; a block with "guest
\* editors" and fewer than 50 characters sets the state to editors, a block
\* with "special issue information" and fewer than 100 characters sets it to
\* description, neither is appended; any other block goes to the accumulator
\* of the current state only.
C3_HeadingRulesUnconditional ==
    [][ ExaminedVisit =>
          /\ StartsInDescription
          /\ GuestHeadingBlock(wparser, soup.blocks[widx], 50) =>
                 current_mode' = "editors" /\ AccumulatorsKept
          /\ InfoHeadingBlock(wparser, soup.blocks[widx]) =>
                 current_mode' = "description" /\ AccumulatorsKept
          /\ RoutedByState ]_vars

\* A rule the parser checks before its guest-editors rule applies to the block.
BeforeGuestRule(parser, tag) ==
    parser = "parse_rse_sciencedirect" /\ HasStopMarker(parser, tag)

\* A rule the parser checks before its special-issue-information rule
\* applies to the block.
BeforeInfoRule(parser, tag) ==
    IF parser = "parse_rse_sciencedirect"
    THEN HasStopMarker(parser, tag) \/ GuestHeadingBlock(parser, tag, 100)
    ELSE GuestHeadingBlock(parser, tag, 50)

\* C3: the walk starts in state description; a guest-editors heading (under
\* 50 characters) sets the state to editors and a special-issue-information
\* heading (under 100 characters) sets it to description, each unless a rule
\* the parser checks earlier applies to the block; a heading that switches
\* the state is not appended; any visit appends to the accumulator of the
\* current state only, never to both.
C3_HeadingRulesInOrder ==
    [][ ExaminedVisit =>
          /\ StartsInDescription
          /\ (/\ GuestHeadingBlock(wparser, soup.blocks[widx], 50)
              /\ ~BeforeGuestRule(wparser, soup.blocks[widx])) =>
                 current_mode' = "editors" /\ AccumulatorsKept
          /\ (/\ InfoHeadingBlock(wparser, soup.blocks[widx])
              /\ ~BeforeInfoRule(wparser, soup.blocks[widx])) =>
                 current_mode' = "description" /\ AccumulatorsKept
          /\ RoutedByState ]_vars

\* A walk has collected a description block, switched to editors on a
\* heading, and collected an editor.
C3_Witness ==
    /\ wparser \in ModeWalks
    /\ current_mode = "editors"
    /\ editors_parts # <<>>
    /\ description_parts # <<>>

\* No deadline label, no anchor, no editor block: nothing to recognize.
Garbage(sp) ==
    /\ sp.avail
    /\ sp.deadlineStr = <<>>
    /\ ~sp.anchor
    /\ \A i \in 1..Len(sp.blocks) : sp.blocks[i].cls # "OutlineElement"

\* C9: for a document that is None, empty or garbage, every detail parser
\* returns a triple of documented sentinels: deadline "Check Link" or
\* "Unknown", editors "See website", "Unknown" or "Editors info not found.",
\* description the placeholder sentence.
C9_SentinelTriple ==
    (wpc = "done" /\ (~soup.avail \/ Garbage(soup))) =>
        /\ details.deadline \in {<<"Check Link">>, <<"Unknown">>}
        /\ details.editors \in {<<"See website">>, <<"Unknown">>,
                                <<"Editors info not found.">>}
        /\ details.description =
               <<TextNode(<<"Detailed description available on the official website.">>)>>

\* C11: in every section walk, the visit of a block that holds nested
\* block-level children appends nothing to the editors or description
\* accumulator (only leaf blocks are collected).
C11_OnlyLeafBlocksCollected ==
    [][ (wpc = "walk" /\ wparser \in Parsers /\ soup.blocks[widx].nested)
        => AccumulatorsKept ]_vars

\* C12: no step of an extraction call changes the document passed in: its
\* elements, their names and their attributes are at the return what they
\* were at the call.
C12_DocumentUnchanged ==
    [][ (wparser \in Parsers) => (soup' = soup) ]_vars

\* What the editor pass of parse_cities_sciencedirect is to keep of a div:
\* class OutlineElement, no "submit", "guide" or "guest editors" in its text,
\* and a pure name of 3 to 39 characters.
EditorDivOf(tag) ==
    /\ tag.name = "div" /\ tag.cls = "OutlineElement"
    /\ ~Contains(LowerText(GetText(tag)), "submit")
    /\ ~Contains(LowerText(GetText(tag)), "guide")
    /\ ~Contains(LowerText(GetText(tag)), "guest editors")
    /\ TextLen(extract_pure_name(GetText(tag))) >= 3
    /\ TextLen(extract_pure_name(GetText(tag))) <= 39

\* C13: in parse_cities_sciencedirect every editor div of the document is
\* still an editor div after each visit of the description walk, and the
\* editor pass puts the pure name of every editor div into the editors.
C13_EditorsSurviveDescriptionPass ==
    [][ (wparser = "parse_cities_sciencedirect") =>
          /\ wpc = "walk" =>
                 \A i \in 1..Len(soup.blocks) :
                     EditorDivOf(soup.blocks[i]) => EditorDivOf(soup'.blocks[i])
          /\ wpc = "assemble" =>
                 \A i \in 1..Len(soup.blocks) :
                     EditorDivOf(soup.blocks[i]) =>
                         \E k \in 1..Len(editors_parts') :
                             editors_parts'[k] = extract_pure_name(GetText(soup.blocks[i])) ]_vars

-----------------------------------------------------------------------------
(* Properties of get_parser, checked under RouterSpec.                     *)

\* The letters of "cities" in either case, position by position.
CitiesAnyCase ==
    <<{"c", "C"}, {"i", "I"}, {"t", "T"}, {"i", "I"}, {"e", "E"}, {"s", "S"}>>

\* The name contains "cities" in some mix of upper and lower case.
NamesCities(name) ==
    \E i \in 1..(Len(name) - 5) : \A k \in 1..6 : name[i + k - 1] \in CitiesAnyCase[k]

\* C4: get_parser answers for every name; the answer is
\* parse_cities_sciencedirect exactly when the name contains "cities" in any
\* case, and parse_rse_sciencedirect for every other name.
C4_RouterTotal ==
    /\ parser_func = "none" => ENABLED GetParser
    /\ parser_func # "none" =>
           /\ parser_func \in {"parse_cities_sciencedirect", "parse_rse_sciencedirect"}
           /\ parser_func = "parse_cities_sciencedirect" <=> NamesCities(journal_name)

\* A name that holds "cities" only once its case is folded went to the
\* cities parser.
C4_Witness ==
    /\ parser_func = "parse_cities_sciencedirect"
    /\ ~InStr(KeyCities, journal_name)

-----------------------------------------------------------------------------
(* Properties of a scrape run, checked under Spec.                         *)

\* title.strip().lower()
NormalTitle(rec) == IF rec.title.none THEN <<>> ELSE LowerText(Strip(rec.title.v))

\* The two records carry the same dedup key, by URL and by title alike.
SameKey(r1, r2) == r1.url = r2.url /\ NormalTitle(r1) = NormalTitle(r2)

NoRepeatedKey(recs) ==
    \A a \in 1..Len(recs) : \A b \in 1..Len(recs) : a < b => ~SameKey(recs[a], recs[b])

\* The absolute URL of a candidate link of the listing.
CanonicalUrl(link) ==
    IF StartsWithHttp(link.href.v) THEN link.href.v ELSE SiteRoot \o link.href.v

\* Where in the listing a URL is first offered by a link with a title.
FirstOffer(url) ==
    LET at == {i \in 1..Len(links) :
                  Strip(links[i].title) # <<>> /\ CanonicalUrl(links[i]) = url}
    IN  IF at = {} THEN 0 ELSE CHOOSE i \in at : \A j \in at : i <= j

\* C5: no two records of one journal carry the same dedup key, and the
\* records stand in the order in which the listing first offers their keys.
C5_UniqueInFirstOccurrenceOrder ==
    /\ NoRepeatedKey(issues)
    /\ \A j \in 1..Len(results) : NoRepeatedKey(results[j].special_issues)
    /\ rpc = "links" =>
           \A a \in 1..Len(issues) : \A b \in 1..Len(issues) :
               a < b => FirstOffer(issues[a].url.v) < FirstOffer(issues[b].url.v)

\* C6: a completed run holds one result per configured journal, in the
\* configured order; a journal whose listing is unavailable is entered with
\* an empty special_issues sequence and the run goes on to the next journal
\* (or to saving, after the last).
C6_OneResultPerJournal ==
    /\ [](rpc = "saved" =>
            /\ Len(results) = Len(journals)
            /\ \A i \in 1..Len(journals) :
                   /\ results[i].name = journals[i].name
                   /\ results[i].url = journals[i].url)
    /\ [][ rpc = "unavailable" =>
             /\ results' = Append(results, [name |-> journals[jidx].name,
                                            url |-> journals[jidx].url,
                                            special_issues |-> <<>>])
             /\ jidx' = jidx + 1
             /\ rpc' = IF jidx < Len(journals)
                       THEN (IF prog = "scripts" THEN "get_soup" ELSE "request")
                       ELSE "save" ]_vars

\* A run without an API key has completed: both listings were unavailable
\* and both journals are in the result, empty.
C6_Witness ==
    /\ rpc = "saved"
    /\ ~api_key
    /\ Len(journals) = 2
    /\ Len(results) = 2
    /\ results[1].special_issues = <<>>
    /\ results[2].special_issues = <<>>

RecordKeys == {"title", "url", "deadline", "guest_editors", "description", "last_updated"}

\* C7: every record of a completed run has the six keys, each with a string
\* value, never null.
C7_AllKeysAreStrings ==
    rpc = "saved" =>
        \A j \in 1..Len(results) : \A a \in 1..Len(results[j].special_issues) :
            LET rec == results[j].special_issues[a] IN
            /\ DOMAIN rec = RecordKeys
            /\ \A k \in DOMAIN rec : ~rec[k].none

\* The record has a non-empty title and a URL that starts with "http".
TitledAndAbsolute(rec) ==
    /\ ~rec.title.none /\ rec.title.v # <<>>
    /\ ~rec.url.none /\ rec.url.v # <<>> /\ rec.url.v[1] = "http"

\* C8: every record appended to a journal's result has a non-empty title
\* and a non-empty URL that starts with "http".
C8_TitleAndAbsoluteUrl ==
    /\ \A a \in 1..Len(issues) : TitledAndAbsolute(issues[a])
    /\ \A j \in 1..Len(results) : \A a \in 1..Len(results[j].special_issues) :
           TitledAndAbsolute(results[j].special_issues[a])

-----------------------------------------------------------------------------
(* Properties of clean_html_attributes, checked under CleanSpec.           *)

\* C10: cleaning what clean_html_attributes returned gives the same string
\* again.
C10_CleanIdempotent == clean_calls >= 2 => cleaned = first_cleaned

=============================================================================
